---- MODULE Spec2Model ----
(***************************************************************************)
(* Pet match engine (src/match-engine.js) with its report generator        *)
(* (src/unnamed/part_002, required as ./match-report-generator).           *)
(* and the cost control of the server that starts it (src/kill-switch.js,   *)
(* with the authentication middleware of src/unnamed/part_005).            *)
(*                                                                         *)
(* Conventions of the model                                                *)
(*  - A nullable field is an option: None is <<>>, a present value v is     *)
(*    <<v>>.                                                                *)
(*  - A cosine similarity dot/(norm1*norm2) is kept exactly as the signed   *)
(*    square sgn(dot)*dot^2 / (norm1^2*norm2^2), a reduced fraction         *)
(*    [n, d]; squaring is monotone on the sign-extended values, so every    *)
(*    comparison of the code (Math.max, >= threshold, sort) is decided      *)
(*    exactly as on the real numbers.                                       *)
(*  - Coordinates are whole numbers of half degrees on a small grid near    *)
(*    the equator; the haversine formula is tabulated on that grid in       *)
(*    whole miles.                                                          *)
(*  - Each await of the code is one step of a pass: the step is the         *)
(*    completion of the awaited call together with all the synchronous      *)
(*    code that follows it up to the next awaited I/O call.                 *)
(*  - A request to the server is one step: the middleware chain and the    *)
(*    route handler are synchronous up to the response.  The clock is kept  *)
(*    as two flags, whether the minute and the day since the last reset of  *)
(*    the counters are over.                                                *)
(***************************************************************************)
EXTENDS Integers, Sequences, FiniteSets, TLC

\* ------------------------------------------------------------------ bounds
MaxPasses == 2
MaxFaults == 1
MaxRequests == 3

\* --------------------------------------------------------------- constants
BATCH_SIZE == 50
MAX_DISTANCE_MILES == 50
POOL_LIMIT == 1000
Infinity == 1000000
MATCH_THRESHOLD == [n |-> 289, d |-> 400]
RATE_LIMIT_GLOBAL == 1000
RATE_LIMIT_PER_IP == 60
RATE_LIMIT_COMMAND == 30
RATE_LIMIT_WEBHOOK == 60
RATE_LIMIT_INBOX == 100
DAILY_REQUEST_LIMIT == 50000
KILL_SWITCH_SECRET == "emergency-stop-12345"
ADMIN_KEY == "admin-key"

\* ----------------------------------------------------------------- options
None == <<>>
Some(v) == <<v>>

\* ------------------------------------------------------- similarity kernel
Abs(x) == IF x < 0 THEN -x ELSE x

RECURSIVE Gcd(_, _)
Gcd(a, b) == IF b = 0 THEN a ELSE Gcd(b, a % b)

Zero == [n |-> 0, d |-> 1]

Ratio(dotProduct, sq1, sq2) ==
    LET num == dotProduct * dotProduct
        den == sq1 * sq2
        g   == Gcd(num, den)
    IN  IF dotProduct = 0 THEN Zero
        ELSE [n |-> (IF dotProduct < 0 THEN -1 ELSE 1) * (num \div g), d |-> den \div g]

SimLeq(a, b) == a.n * b.d <= b.n * a.d

\* variant: the last similarity computed replaces the running maximum
MathMax_Last(a, b) == b

MathMax(a, b) == IF SimLeq(b, a) THEN a ELSE b

RECURSIVE SumProd(_, _, _)
SumProd(vec1, vec2, i) ==
    IF i > Len(vec1) THEN 0 ELSE vec1[i] * vec2[i] + SumProd(vec1, vec2, i + 1)

\* the value of 0 / 0
NaN == [n |-> 0, d |-> 0]

\* variant: without the zero-norm return of line 45 the quotient is 0 / 0
cosineSimilarity_NoNormCheck(vec1, vec2) ==
    IF vec1 = None \/ vec2 = None THEN Zero
    ELSE IF Len(vec1[1]) # Len(vec2[1]) THEN Zero
    ELSE LET dotProduct == SumProd(vec1[1], vec2[1], 1)
             norm1 == SumProd(vec1[1], vec1[1], 1)
             norm2 == SumProd(vec2[1], vec2[1], 1)
         IN  IF norm1 = 0 \/ norm2 = 0 THEN NaN
             ELSE Ratio(dotProduct, norm1, norm2)

cosineSimilarity(vec1, vec2) ==
    IF vec1 = None \/ vec2 = None THEN Zero
    ELSE IF Len(vec1[1]) # Len(vec2[1]) THEN Zero
    ELSE LET dotProduct == SumProd(vec1[1], vec2[1], 1)
             norm1 == SumProd(vec1[1], vec1[1], 1)
             norm2 == SumProd(vec2[1], vec2[1], 1)
         IN  IF norm1 = 0 \/ norm2 = 0 THEN Zero
             ELSE Ratio(dotProduct, norm1, norm2)

\* variant: only a missing coordinate counts, 0 is a position
Falsy_NullOnly(c) == c = None

Falsy(c) == c = None \/ c[1] = 0

HaversineMiles(dLat, dLon) ==
    CASE dLat = 0 /\ dLon = 0 -> 0
      [] dLat + dLon = 1 -> 35
      [] dLat = 1 /\ dLon = 1 -> 49
      [] dLat + dLon = 2 -> 69
      [] dLat + dLon = 3 -> 77
      [] OTHER -> 98

calculateDistance(lat1, lon1, lat2, lon2) ==
    IF Falsy(lat1) \/ Falsy(lon1) \/ Falsy(lat2) \/ Falsy(lon2) THEN Infinity
    ELSE HaversineMiles(Abs(lat2[1] - lat1[1]), Abs(lon2[1] - lon1[1]))

\* ------------------------------------------------------- candidate scanner
NoVectors(pet) == pet.image_vectors = None \/ Len(pet.image_vectors[1]) = 0

RECURSIVE InnerMax(_, _, _, _)
InnerMax(maxSimilarity, lostVector, foundVectors, j) ==
    IF j > Len(foundVectors) THEN maxSimilarity
    ELSE InnerMax(MathMax(maxSimilarity, cosineSimilarity(lostVector, foundVectors[j])),
                  lostVector, foundVectors, j + 1)

RECURSIVE OuterMax(_, _, _, _)
OuterMax(maxSimilarity, lostVectors, foundVectors, i) ==
    IF i > Len(lostVectors) THEN maxSimilarity
    ELSE OuterMax(InnerMax(maxSimilarity, lostVectors[i], foundVectors, 1),
                  lostVectors, foundVectors, i + 1)

\* variant: the distance is not checked
Qualifies_IgnoresDistance(maxSimilarity, distance) == SimLeq(MATCH_THRESHOLD, maxSimilarity)

Qualifies(maxSimilarity, distance) ==
    SimLeq(MATCH_THRESHOLD, maxSimilarity) /\ distance <= MAX_DISTANCE_MILES

RECURSIVE ScanPool(_, _, _)
ScanPool(lostPet, foundPets, i) ==
    IF i > Len(foundPets) THEN <<>>
    ELSE LET foundPet == foundPets[i]
             rest == ScanPool(lostPet, foundPets, i + 1)
         IN  IF NoVectors(foundPet) THEN rest
             ELSE LET maxSimilarity == OuterMax(Zero, lostPet.image_vectors[1],
                                                foundPet.image_vectors[1], 1)
                      distance == calculateDistance(lostPet.location_lat, lostPet.location_lon,
                                                    foundPet.location_lat, foundPet.location_lon)
                  IN  IF Qualifies(maxSimilarity, distance)
                      THEN <<[foundPetId |-> foundPet.id, similarity |-> maxSimilarity,
                              distance |-> distance]>> \o rest
                      ELSE rest

\* Array.prototype.sort with comparator (a, b) => b.similarity - a.similarity:
\* a stable sort, highest similarity first.
RECURSIVE InsertSorted(_, _)
InsertSorted(m, sorted) ==
    IF sorted = <<>> THEN <<m>>
    ELSE IF SimLeq(m.similarity, sorted[1].similarity) THEN <<sorted[1]>> \o InsertSorted(m, Tail(sorted))
    ELSE <<m>> \o sorted

\* variant: the candidates stay in pool order
SortMatches_Unsorted(ms) == ms

RECURSIVE SortMatches(_)
SortMatches(ms) ==
    IF ms = <<>> THEN <<>>
    ELSE LET n == Len(ms) IN InsertSorted(ms[n], SortMatches(SubSeq(ms, 1, n - 1)))

findMatches(lostPet, foundPets) == SortMatches(ScanPool(lostPet, foundPets, 1))

\* ------------------------------------------------------------ record store
\* Rows of table lost_pets, in the order the store returns them.
PetIds == <<"L1", "L2", "F1", "F2">>

\* embeddings used by the rows (a null entry is None)
VA == Some(<<1, 0>>)
VB == Some(<<2, 1>>)
VC == Some(<<3, 1>>)
VD == Some(<<1, 1>>)
VZ == Some(<<0, 0>>)
VN == Some(<<-1, 0>>)
VS == Some(<<1>>)

Row(id, status, vectors, lat, lon, phone) ==
    [id |-> id, status |-> status, image_vectors |-> vectors, location_lat |-> lat,
     location_lon |-> lon, owner_phone |-> phone, contact_phone |-> None]

Table(l1, l2, f1, f2) == [id \in {"L1", "L2", "F1", "F2"} |->
    CASE id = "L1" -> l1 [] id = "L2" -> l2 [] id = "F1" -> f1 [] OTHER -> f2]

\* T1: L1 matches F2 (0.949, 35 mi) and F1 (0.894, 0 mi), the reverse of the
\*     pool order; L2 matches F2 (0.990, 35 mi) and is too far from F1 (69 mi).
T1 == Table(Row("L1", "lost", Some(<<VA>>), Some(1), Some(1), Some("+1")),
            Row("L2", "lost", Some(<<VB>>), Some(3), Some(1), Some("+2")),
            Row("F1", "found", Some(<<VB>>), Some(1), Some(1), None),
            Row("F2", "found", Some(<<VZ, VC>>), Some(2), Some(1), None))

\* T2: L1 has two embeddings and no phone, and matches F1 and F2 with equal
\*     similarity 0.949; L2 has an empty embedding list.
T2 == Table(Row("L1", "lost", Some(<<VD, VA>>), Some(1), Some(1), None),
            Row("L2", "lost", Some(<<>>), Some(1), Some(1), Some("+2")),
            Row("F1", "found", Some(<<VB>>), Some(1), Some(1), None),
            Row("F2", "found", Some(<<VZ, VC>>), Some(2), Some(1), None))

\* T3: one candidate per subject: L1-F2 (0.949, 35 mi) and L2-F2 (0.990, 35 mi);
\*     F1 is below the threshold for L1 (0.707) and too far from L2 (69 mi).
T3 == Table(Row("L1", "lost", Some(<<VA>>), Some(1), Some(1), Some("+1")),
            Row("L2", "lost", Some(<<VB>>), Some(3), Some(1), Some("+2")),
            Row("F1", "found", Some(<<VN, VS, VD>>), Some(1), Some(1), None),
            Row("F2", "found", Some(<<VZ, VC>>), Some(2), Some(1), None))

\* T4: F1 has null embeddings; L1 has latitude 0 and matches nothing; F2
\*     matches L2 (0.894, 0 mi).
T4 == Table(Row("L1", "lost", Some(<<VD, VA>>), Some(0), Some(1), None),
            Row("L2", "lost", Some(<<VB>>), Some(3), Some(1), Some("+2")),
            Row("F1", "found", None, Some(1), Some(1), None),
            Row("F2", "found", Some(<<VA>>), Some(3), Some(1), None))

\* T5: F1 has an empty embedding list and F2 no latitude: no candidate at all.
T5 == Table(Row("L1", "lost", Some(<<VA>>), Some(1), Some(1), Some("+1")),
            Row("L2", "lost", None, Some(1), Some(1), Some("+2")),
            Row("F1", "found", Some(<<>>), Some(1), Some(1), None),
            Row("F2", "found", Some(<<VA>>), None, Some(1), None))

Tables == {T1, T2, T3, T4, T5}

\* A store with more eligible subjects than one work-list query returns:
\* BATCH_SIZE + 1 lost rows S1, S2, ... and one found row F1.  S1 matches F1
\* (similarity 1, 0 mi); the other subjects are opposite to F1 (similarity -1).
ManyIds == [i \in 1..(BATCH_SIZE + 2) |->
               IF i <= BATCH_SIZE + 1 THEN "S" \o ToString(i) ELSE "F1"]

TMany == [id \in {ManyIds[i] : i \in 1..Len(ManyIds)} |->
    CASE id = "F1" -> Row("F1", "found", Some(<<VA>>), Some(1), Some(1), None)
      [] id = "S1" -> Row("S1", "lost", Some(<<VA>>), Some(1), Some(1), Some("+1"))
      [] OTHER -> Row(id, "lost", Some(<<VN>>), Some(1), Some(1), Some("+1"))]

\* Stores with one subject L1 and one counterpart F1 (L2 and F2 have null
\* embeddings and are returned by no query).  In GeoTables the two rows have
\* the same embedding and each coordinate is missing, 0 or present; in
\* SimTables the two rows are at the same place and each has one or two
\* embeddings.
Coords == {None, Some(0), Some(1)}

VecLists == {<<a>> : a \in {VA, VC, VN}} \cup {<<a, b>> : a, b \in {VA, VC, VN}}

Pair(vectors1, lat1, lon1, vectors2, lat2, lon2) ==
    Table(Row("L1", "lost", Some(vectors1), lat1, lon1, Some("+1")),
          Row("L2", "lost", None, Some(1), Some(1), None),
          Row("F1", "found", Some(vectors2), lat2, lon2, None),
          Row("F2", "found", None, Some(1), Some(1), None))

GeoTables == { Pair(<<VA>>, lat1, lon1, <<VA>>, lat2, lon2) : lat1, lon1, lat2, lon2 \in Coords }

SimTables == { Pair(v1, Some(1), Some(1), v2, Some(1), Some(1)) : v1, v2 \in VecLists }

\* In EdgeTables the two rows are at the same place and each has one
\* embedding, which is null, empty, of zero norm, of length 1 or of length 2.
EdgeVectors == {None, Some(<<>>), VZ, VS, VA}

EdgeTables == { Pair(<<v1>>, Some(1), Some(1), <<v2>>, Some(1), Some(1)) : v1, v2 \in EdgeVectors }

Passes == 1..MaxPasses

VARIABLES lost_pets, pet_matches, sinchConfigured,
          pc, lostPets, cur, matches, k, matchId,
          started, faults, trace, returned

\* the state of cost control (src/kill-switch.js): counters.killSwitch,
\* counters.requests, whether the minute and the day of counters.lastReset
\* are over, and the number of requests answered with the last response
\* (to which address, on which path)
VARIABLES killSwitch, requests, windowOver, served, last

vars == <<lost_pets, pet_matches, sinchConfigured, pc, lostPets, cur, matches, k, matchId,
          started, faults, trace, returned, killSwitch, requests, windowOver, served, last>>

engineVars == <<lost_pets, pet_matches, sinchConfigured, pc, lostPets, cur, matches, k, matchId,
                started, faults, trace, returned>>

gateVars == <<killSwitch, requests, windowOver, served, last>>

\* --------------------------------------------------------------- queries
RECURSIVE Select(_, _, _)
Select(ids, status, i) ==
    IF i > Len(ids) THEN <<>>
    ELSE LET row == lost_pets[ids[i]]
         IN  IF row.status = status /\ row.image_vectors # None
             THEN <<row>> \o Select(ids, status, i + 1)
             ELSE Select(ids, status, i + 1)

Limit(rows, n) == IF Len(rows) <= n THEN rows ELSE SubSeq(rows, 1, n)

\* the ids of the rows of the store, in the order the store returns them (no
\* query of the engine has an order clause and the engine writes no row of
\* lost_pets, so every query sees the rows in the same order)
StoreIds == IF "S1" \in DOMAIN lost_pets THEN ManyIds ELSE PetIds

\* variant: a subject that has a MatchRecord has left the unresolved population
LostQuery_SkipsMatched ==
    SelectSeq(Limit(Select(StoreIds, "lost", 1), BATCH_SIZE),
              LAMBDA row : \A m \in 1..Len(pet_matches) : pet_matches[m].lost_pet_id # row.id)

\* from('lost_pets').eq('status','lost').not('image_vectors','is',null).limit(BATCH_SIZE)
LostQuery == Limit(Select(StoreIds, "lost", 1), BATCH_SIZE)

\* from('lost_pets').eq('status','found').not('image_vectors','is',null).limit(1000)
FoundQuery == Limit(Select(StoreIds, "found", 1), POOL_LIMIT)

\* from('pet_matches').eq('lost_pet_id', ..).eq('found_pet_id', ..).limit(1).single(): !!data
HasRecord(lostPetId, foundPetId) ==
    \E m \in 1..Len(pet_matches) :
        pet_matches[m].lost_pet_id = lostPetId /\ pet_matches[m].found_pet_id = foundPetId

\* ------------------------------------------------------------ cost control
\* Requests reach the server from two addresses, on the routes below, with
\* or without the admin key and, on the kill-switch routes, with a secret in
\* the body.
IPs == {"ip1", "ip2"}

Paths == {"/health", "/api/kill-switch", "/api/kill-switch/deactivate", "/api/command"}

SwitchRoutes == {"/api/kill-switch/deactivate"}

Keys == {None, Some("invalid"), Some(ADMIN_KEY)}

Secrets == {Some("wrong"), Some(KILL_SWITCH_SECRET)}

Requests ==
    { [ip |-> ip, path |-> path, key |-> key, secret |-> secret] :
        ip \in IPs, path \in Paths \ SwitchRoutes, key \in Keys, secret \in {None} }
    \cup
    { [ip |-> ip, path |-> path, key |-> key, secret |-> secret] :
        ip \in IPs, path \in SwitchRoutes, key \in Keys, secret \in Secrets }

\* counters.requests (total and thisHour are written and never read by a
\* decision, and are left out)
Counters(today, thisMinute, byIP, byEndpoint) ==
    [today |-> today, thisMinute |-> thisMinute, byIP |-> byIP, byEndpoint |-> byEndpoint]

NoneByIP == [ip \in IPs |-> 0]

NoneByEndpoint == [path \in Paths |-> 0]

\* Request histories the server can have behind it when observation begins
\* (requests of addresses other than IPs count in today and thisMinute):
\*   nothing yet;
\*   59 requests of ip1 to /health in the current minute;
\*   29 requests of ip1 to /api/command in the current minute;
\*   999 requests of other addresses to /health in the current minute;
\*   49,999 requests to /health today, the last one of ip2 in the current minute.
Histories ==
    { Counters(0, 0, NoneByIP, NoneByEndpoint),
      Counters(59, 59, [NoneByIP EXCEPT !["ip1"] = 59], [NoneByEndpoint EXCEPT !["/health"] = 59]),
      Counters(29, 29, [NoneByIP EXCEPT !["ip1"] = 29], [NoneByEndpoint EXCEPT !["/api/command"] = 29]),
      Counters(999, 999, NoneByIP, [NoneByEndpoint EXCEPT !["/health"] = 999]),
      Counters(49999, 1, [NoneByIP EXCEPT !["ip2"] = 1], [NoneByEndpoint EXCEPT !["/health"] = 49999]) }

NoResponse == [ip |-> "-", path |-> "-", status |-> 0, by |-> "-", error |-> "-"]

\* ------------------------------------------------------------------- Init
\* The state of cost control when the server starts without KILL_SWITCH set.
ServerStartup ==
    /\ killSwitch = FALSE
    /\ requests = Counters(0, 0, NoneByIP, NoneByEndpoint)
    /\ windowOver = [minute |-> FALSE, day |-> FALSE]
    /\ served = 0
    /\ last = NoResponse

\* The state when startMatchEngine returns: the startup pass has issued its
\* work-list query and the cron job is scheduled.
Startup ==
    /\ pet_matches = <<>>
    /\ pc = [p \in Passes |-> IF p = 1 THEN "list" ELSE "idle"]
    /\ lostPets = [p \in Passes |-> <<>>]
    /\ cur = [p \in Passes |-> 0]
    /\ matches = [p \in Passes |-> <<>>]
    /\ k = [p \in Passes |-> 0]
    /\ matchId = [p \in Passes |-> 0]
    /\ started = 1
    /\ faults = 0
    /\ trace = [p \in Passes |-> <<>>]
    /\ returned = 0

Init ==
    /\ lost_pets \in Tables
    /\ sinchConfigured \in BOOLEAN
    /\ Startup
    /\ ServerStartup

\* ------------------------------------------------------- control of a pass
Running(p) == pc[p] \notin {"idle", "done"}

\* one completed call of a pass, as recorded in its trace; out is the value
\* findMatchesForLostPet returned (pool events only)
EvOut(op, lost, found, res, id, out) ==
    [op |-> op, lost |-> lost, found |-> found, res |-> res, id |-> id, out |-> out]

Ev(op, lost, found, res, id) == EvOut(op, lost, found, res, id, <<>>)

\* variant: every subject of the work list is scanned
NextSubject_ScansAll(rows, i) ==
    IF i > Len(rows) THEN [pc |-> "done", cur |-> 0, matches |-> <<>>, k |-> 0]
    ELSE [pc |-> "pool", cur |-> i, matches |-> <<>>, k |-> 0]

\* for (const lostPet of lostPets): the next subject whose scan awaits the pool
\* query; a subject without vectors yields [] at once (lines 71-73).
RECURSIVE NextSubject(_, _)
NextSubject(rows, i) ==
    IF i > Len(rows) THEN [pc |-> "done", cur |-> 0, matches |-> <<>>, k |-> 0]
    ELSE IF NoVectors(rows[i]) THEN NextSubject(rows, i + 1)
    ELSE [pc |-> "pool", cur |-> i, matches |-> <<>>, k |-> 0]

\* for (const match of matches): the next candidate awaits matchExists
NextCandidate(rows, i, ms, j) ==
    IF j > Len(ms) THEN NextSubject(rows, i + 1)
    ELSE [pc |-> "exists", cur |-> i, matches |-> ms, k |-> j]

\* variant: the error is rethrown out of processMatches, which never reaches
\* its end
CatchSubject_Stalls(rows, i) == [pc |-> "stalled", cur |-> i, matches |-> <<>>, k |-> 0]

\* variant: the error leaves the subject loop and ends the pass
CatchSubject_AbortsPass(rows, i) == [pc |-> "done", cur |-> 0, matches |-> <<>>, k |-> 0]

\* catch (error) of lines 275-277: the subject is abandoned
CatchSubject(rows, i) == NextSubject(rows, i + 1)

\* variant: an existing record does not stop the insert
AfterExists_NoSkip(rows, i, ms, j, exists) == [pc |-> "save", cur |-> i, matches |-> ms, k |-> j]

\* lines 243-253: if (exists) continue; otherwise saveMatch is awaited
AfterExists(rows, i, ms, j, exists) ==
    IF exists THEN NextCandidate(rows, i, ms, j + 1)
    ELSE [pc |-> "save", cur |-> i, matches |-> ms, k |-> j]

\* variant: a failed insert abandons the subject
AfterSaveError_AbandonsSubject(rows, i, ms, j) == CatchSubject(rows, i)

\* lines 189-192 and 255: saveMatch returned null, the candidate is skipped
AfterSaveError(rows, i, ms, j) == NextCandidate(rows, i, ms, j + 1)

\* variant: a notification failure is thrown into the catch of the subject loop
AfterNotify_Propagates(rows, i, ms, j, res) ==
    IF res \in {"not_configured", "no_phone", "http_error"} THEN CatchSubject(rows, i)
    ELSE [pc |-> "report", cur |-> i, matches |-> ms, k |-> j]

\* variant: the report is generated only after a notification that was sent
AfterNotify_SkipsReport(rows, i, ms, j, res) ==
    IF res = "sent" THEN [pc |-> "report", cur |-> i, matches |-> ms, k |-> j]
    ELSE NextCandidate(rows, i, ms, j + 1)

\* lines 133-142, 171-173 and 260-264: whatever sendMatchNotification did,
\* it returns normally and processMatchReport(matchId) is awaited next
AfterNotify(rows, i, ms, j, res) == [pc |-> "report", cur |-> i, matches |-> ms, k |-> j]

\* variant: the failed read is repeated within the pass
AfterListError_Retries == [pc |-> "list", cur |-> 0, matches |-> <<>>, k |-> 0]

\* lines 226-229: if (error || !lostPets) return
AfterListError == [pc |-> "done", cur |-> 0, matches |-> <<>>, k |-> 0]

\* variant: a failed notification is recorded on the match
NotifyStore_TagsFailure(rows, id, res) ==
    [m \in 1..Len(rows) |-> IF rows[m].id = id /\ res # "sent"
                             THEN [rows[m] EXCEPT !.status = "notify_failed"] ELSE rows[m]]

\* lines 132-174: sendMatchNotification makes no store call; the match store
\* after it is the match store before it
NotifyStore(rows, id, res) == rows

Goto(p, st) ==
    /\ pc' = [pc EXCEPT ![p] = st.pc]
    /\ cur' = [cur EXCEPT ![p] = st.cur]
    /\ matches' = [matches EXCEPT ![p] = st.matches]
    /\ k' = [k EXCEPT ![p] = st.k]

Fault(res, okSet) ==
    /\ res \notin okSet => faults < MaxFaults
    /\ faults' = IF res \in okSet THEN faults ELSE faults + 1

Log(p, e) == trace' = [trace EXCEPT ![p] = Append(@, e)]

\* ---------------------------------------------------------------- actions
\* variant: the tick is counted but calls nothing
Tick_StartsNothing ==
    /\ started < MaxPasses
    /\ started' = started + 1
    /\ UNCHANGED <<lost_pets, pet_matches, sinchConfigured, pc, lostPets, cur, matches, k,
                   matchId, faults, trace, returned>>
    /\ UNCHANGED gateVars

\* cron.schedule callback (lines 299-301): every tick calls processMatches,
\* whatever the state of earlier passes.
Tick ==
    /\ started < MaxPasses
    /\ started' = started + 1
    /\ pc' = [pc EXCEPT ![started + 1] = "list"]
    /\ UNCHANGED <<lost_pets, pet_matches, sinchConfigured, lostPets, cur, matches, k,
                   matchId, faults, trace, returned>>
    /\ UNCHANGED gateVars

\* lines 219-236: the work-list query completes
ListDone(p) ==
    /\ pc[p] = "list"
    /\ returned' = returned + 1
    /\ UNCHANGED gateVars
    /\ \E res \in {"ok", "error"} :
        /\ Fault(res, {"ok"})
        /\ Log(p, Ev("list", "-", "-", res, 0))
        /\ IF res = "ok"
           THEN /\ lostPets' = [lostPets EXCEPT ![p] = LostQuery]
                /\ Goto(p, NextSubject(LostQuery, 1))
           ELSE /\ lostPets' = lostPets
                /\ Goto(p, AfterListError)
    /\ UNCHANGED <<lost_pets, pet_matches, sinchConfigured, matchId, started>>

\* lines 76-127 and 238-242: the pool query of findMatchesForLostPet completes
PoolDone(p) ==
    /\ pc[p] = "pool"
    /\ returned' = returned + 1
    /\ UNCHANGED gateVars
    /\ LET lostPet == lostPets[p][cur[p]] IN
       \E res \in {"ok", "error", "throw"} :
        /\ Fault(res, {"ok"})
        /\ CASE res = "ok" ->
                  /\ Log(p, EvOut("pool", lostPet.id, "-", res, 0, findMatches(lostPet, FoundQuery)))
                  /\ Goto(p, NextCandidate(lostPets[p], cur[p], findMatches(lostPet, FoundQuery), 1))
             [] res = "error" ->
                  /\ Log(p, Ev("pool", lostPet.id, "-", res, 0))
                  /\ Goto(p, NextCandidate(lostPets[p], cur[p], <<>>, 1))
             [] OTHER ->
                  /\ Log(p, Ev("pool", lostPet.id, "-", res, 0))
                  /\ Goto(p, CatchSubject(lostPets[p], cur[p]))
    /\ UNCHANGED <<lost_pets, pet_matches, sinchConfigured, lostPets, matchId, started>>

\* lines 200-210 and 242-253: the existence query completes
ExistsDone(p) ==
    /\ pc[p] = "exists"
    /\ returned' = returned + 1
    /\ UNCHANGED gateVars
    /\ LET lostPet == lostPets[p][cur[p]]
           match == matches[p][k[p]]
       IN
       \E res \in {"ok", "error", "throw"} :
        /\ Fault(res, {"ok"})
        /\ LET exists == res = "ok" /\ HasRecord(lostPet.id, match.foundPetId) IN
           /\ Log(p, Ev("exists", lostPet.id, match.foundPetId,
                        IF res = "ok" THEN (IF exists THEN "found" ELSE "absent") ELSE res, 0))
           /\ IF res = "throw"
              THEN Goto(p, CatchSubject(lostPets[p], cur[p]))
              ELSE Goto(p, AfterExists(lostPets[p], cur[p], matches[p], k[p], exists))
    /\ UNCHANGED <<lost_pets, pet_matches, sinchConfigured, lostPets, matchId, started>>

\* line 138: lostPet.owner_phone || lostPet.contact_phone
OwnerPhone(lostPet) ==
    IF lostPet.owner_phone # None THEN lostPet.owner_phone ELSE lostPet.contact_phone

\* lines 179-195 and 248-264: the insert completes; on a new id the code calls
\* sendMatchNotification, which returns at once when SMS is not configured or
\* the owner has no phone (lines 133-142), and otherwise awaits the HTTP post.
SaveDone(p) ==
    /\ pc[p] = "save"
    /\ returned' = returned + 1
    /\ UNCHANGED gateVars
    /\ LET lostPet == lostPets[p][cur[p]]
           match == matches[p][k[p]]
           newId == Len(pet_matches) + 1
           here == [pc |-> "notify", cur |-> cur[p], matches |-> matches[p], k |-> k[p]]
           inserted == Append(pet_matches,
                        [id |-> newId, lost_pet_id |-> lostPet.id,
                         found_pet_id |-> match.foundPetId,
                         similarity_score |-> match.similarity,
                         distance_miles |-> match.distance, status |-> "pending"])
       IN
       \E res \in {"ok", "error", "throw"} :
        /\ Fault(res, {"ok"})
        /\ CASE res = "ok" ->
                  /\ matchId' = [matchId EXCEPT ![p] = newId]
                  /\ IF ~sinchConfigured
                     THEN /\ pet_matches' = NotifyStore(inserted, newId, "not_configured")
                          /\ trace' = [trace EXCEPT ![p] = @ \o
                                <<Ev("save", lostPet.id, match.foundPetId, "ok", newId),
                                  Ev("notify", lostPet.id, match.foundPetId, "not_configured", newId)>>]
                          /\ Goto(p, AfterNotify(lostPets[p], cur[p], matches[p], k[p], "not_configured"))
                     ELSE IF OwnerPhone(lostPet) = None
                     THEN /\ pet_matches' = NotifyStore(inserted, newId, "no_phone")
                          /\ trace' = [trace EXCEPT ![p] = @ \o
                                <<Ev("save", lostPet.id, match.foundPetId, "ok", newId),
                                  Ev("notify", lostPet.id, match.foundPetId, "no_phone", newId)>>]
                          /\ Goto(p, AfterNotify(lostPets[p], cur[p], matches[p], k[p], "no_phone"))
                     ELSE /\ pet_matches' = inserted
                          /\ Log(p, Ev("save", lostPet.id, match.foundPetId, "ok", newId))
                          /\ Goto(p, here)
             [] res = "error" ->
                  /\ UNCHANGED <<pet_matches, matchId>>
                  /\ Log(p, Ev("save", lostPet.id, match.foundPetId, "error", 0))
                  /\ Goto(p, AfterSaveError(lostPets[p], cur[p], matches[p], k[p]))
             [] OTHER ->
                  /\ UNCHANGED <<pet_matches, matchId>>
                  /\ Log(p, Ev("save", lostPet.id, match.foundPetId, "throw", 0))
                  /\ Goto(p, CatchSubject(lostPets[p], cur[p]))
    /\ UNCHANGED <<lost_pets, sinchConfigured, lostPets, started>>

\* lines 156-173 and 259-264: the SMS post completes or fails; the failure is
\* caught inside sendMatchNotification, and processMatchReport is called next.
NotifyDone(p) ==
    /\ pc[p] = "notify"
    /\ returned' = returned + 1
    /\ UNCHANGED gateVars
    /\ LET lostPet == lostPets[p][cur[p]]
           match == matches[p][k[p]]
       IN
       \E res \in {"sent", "http_error"} :
        /\ Fault(res, {"sent"})
        /\ Log(p, Ev("notify", lostPet.id, match.foundPetId, res, matchId[p]))
        /\ pet_matches' = NotifyStore(pet_matches, matchId[p], res)
        /\ Goto(p, AfterNotify(lostPets[p], cur[p], matches[p], k[p], res))
    /\ UNCHANGED <<lost_pets, sinchConfigured, lostPets, matchId, started>>

\* outcomes of processMatchReport (part_002 lines 522-600); "_unsaved" is the
\* outcome in which updateMatchStatus itself fails (lines 510-513)
ReportOutcomes ==
    {"shelter_notified", "notification_failed", "no_shelter_email",
     "shelter_notified_unsaved", "notification_failed_unsaved", "no_shelter_email_unsaved",
     "match_not_found", "pet_not_found", "throw"}

\* the status written by updateMatchStatus, if any
StatusWritten(res) ==
    IF res \in {"shelter_notified", "notification_failed", "no_shelter_email"}
    THEN Some(res) ELSE None

\* reportResult.success
ReportSuccess(res) == res \in {"shelter_notified", "shelter_notified_unsaved"}

\* variant: the update is not restricted to the row of the match
updateMatchStatus_AllRows(rows, id, status) ==
    [m \in 1..Len(rows) |-> [rows[m] EXCEPT !.status = status]]

updateMatchStatus(rows, id, status) ==
    [m \in 1..Len(rows) |-> IF rows[m].id = id THEN [rows[m] EXCEPT !.status = status]
                                              ELSE rows[m]]

\* lines 262-274: processMatchReport(matchId) completes (or throws into the
\* inner catch), then the loop goes on to the next candidate.
ReportDone(p) ==
    /\ pc[p] = "report"
    /\ returned' = returned + 1
    /\ UNCHANGED gateVars
    /\ LET lostPet == lostPets[p][cur[p]]
           match == matches[p][k[p]]
       IN
       \E res \in ReportOutcomes :
        /\ Fault(res, {"shelter_notified"})
        /\ Log(p, Ev("report", lostPet.id, match.foundPetId, res, matchId[p]))
        /\ pet_matches' = IF StatusWritten(res) = None THEN pet_matches
                          ELSE updateMatchStatus(pet_matches, matchId[p], StatusWritten(res)[1])
        /\ Goto(p, NextCandidate(lostPets[p], cur[p], matches[p], k[p] + 1))
    /\ UNCHANGED <<lost_pets, sinchConfigured, lostPets, matchId, started>>

Next ==
    \/ Tick
    \/ \E p \in Passes : ListDone(p)
    \/ \E p \in Passes : PoolDone(p)
    \/ \E p \in Passes : ExistsDone(p)
    \/ \E p \in Passes : SaveDone(p)
    \/ \E p \in Passes : NotifyDone(p)
    \/ \E p \in Passes : ReportDone(p)

Spec == Init /\ [][Next]_vars

\* The engine when every pass ends within the cron period: each tick finds
\* the previous pass completed.
InFlight == { p \in Passes : Running(p) }

TickIdle == InFlight = {} /\ Tick

NextSeq ==
    \/ TickIdle
    \/ \E p \in Passes : ListDone(p)
    \/ \E p \in Passes : PoolDone(p)
    \/ \E p \in Passes : ExistsDone(p)
    \/ \E p \in Passes : SaveDone(p)
    \/ \E p \in Passes : NotifyDone(p)
    \/ \E p \in Passes : ReportDone(p)

SpecSeq == Init /\ [][NextSeq]_vars

\* the pass is suspended at one of the awaits of processMatches
Awaiting(p) == pc[p] \in {"list", "pool", "exists", "save", "notify", "report"}

\* an awaited call returns to its pass: returned counts these returns, so
\* the steps of the passes are the steps that change it
PassStep == (\E p \in Passes : Awaiting(p)) /\ returned' = returned + 1

\* The engine when every awaited call returns, with a result or an error: a
\* pass that awaits a call takes its next step.
SpecLive == Init /\ [][NextSeq]_vars /\ WF_returned(PassStep)

\* The process is shut down while pass p awaits a call, and the pass is
\* abandoned where it stands.  A request that was in flight may have reached
\* the store: the insert of saveMatch (line 180) or the status update of the
\* report generator (part_002 line 503).
Abandon(p) ==
    /\ Awaiting(p)
    /\ pc' = [pc EXCEPT ![p] = "abandoned"]
    /\ LET lostPet == lostPets[p][cur[p]]
           match == matches[p][k[p]]
       IN  CASE pc[p] = "save" ->
                  \E applied \in BOOLEAN :
                      pet_matches' =
                          IF applied
                          THEN Append(pet_matches,
                                 [id |-> Len(pet_matches) + 1, lost_pet_id |-> lostPet.id,
                                  found_pet_id |-> match.foundPetId,
                                  similarity_score |-> match.similarity,
                                  distance_miles |-> match.distance, status |-> "pending"])
                          ELSE pet_matches
             [] pc[p] = "report" ->
                  \E res \in ReportOutcomes :
                      pet_matches' = IF StatusWritten(res) = None THEN pet_matches
                                     ELSE updateMatchStatus(pet_matches, matchId[p], StatusWritten(res)[1])
             [] OTHER -> pet_matches' = pet_matches
    /\ UNCHANGED <<lost_pets, sinchConfigured, lostPets, cur, matches, k, matchId,
                   started, faults, trace, returned>>
    /\ UNCHANGED gateVars

\* the next call of processMatches, by the cron job or by startMatchEngine
\* after a restart, when no pass is executing
TickQuiet == (\A p \in Passes : ~Awaiting(p)) /\ Tick

NextCrash ==
    \/ TickQuiet
    \/ \E p \in Passes : ListDone(p)
    \/ \E p \in Passes : PoolDone(p)
    \/ \E p \in Passes : ExistsDone(p)
    \/ \E p \in Passes : SaveDone(p)
    \/ \E p \in Passes : NotifyDone(p)
    \/ \E p \in Passes : ReportDone(p)
    \/ \E p \in Passes : Abandon(p)

\* The engine with passes that do not overlap and may be abandoned.
SpecCrash == Init /\ [][NextCrash]_vars

\* The same engine over the store with BATCH_SIZE + 1 eligible subjects.
InitBatch ==
    /\ lost_pets = TMany
    /\ sinchConfigured = TRUE
    /\ Startup
    /\ ServerStartup

SpecBatch == InitBatch /\ [][NextSeq]_vars

\* The same engine over every store of GeoTables and SimTables.
InitKernel ==
    /\ lost_pets \in GeoTables \cup SimTables
    /\ sinchConfigured = TRUE
    /\ Startup
    /\ ServerStartup

SpecKernel == InitKernel /\ [][NextSeq]_vars

\* The same engine over every store of EdgeTables.
InitEdge ==
    /\ lost_pets \in EdgeTables
    /\ sinchConfigured = TRUE
    /\ Startup
    /\ ServerStartup

SpecEdge == InitEdge /\ [][NextSeq]_vars

\* ------------------------------------------------- cost control: requests
\* lines 53-73: resetCounters (byEndpoint is cleared nowhere)
resetCounters(r) ==
    [r EXCEPT !.thisMinute = IF windowOver.minute THEN 0 ELSE @,
              !.byIP = IF windowOver.minute THEN NoneByIP ELSE @,
              !.today = IF windowOver.day THEN 0 ELSE @]

\* lines 97-107: the request is counted before any limit is checked
Counted(r, req) ==
    [r EXCEPT !.today = @ + 1, !.thisMinute = @ + 1,
              !.byIP[req.ip] = @ + 1, !.byEndpoint[req.path] = @ + 1]

\* line 76
Exempt(path) == path = "/api/kill-switch" \/ path = "/health"

\* variant: the kill switch is not consulted
Blocked_Never(req) == FALSE

\* lines 76-86: killSwitchMiddleware answers the request itself
Blocked(req) == ~Exempt(req.path) /\ killSwitch

\* lines 18-22 and 123: COST_CONFIG.RATE_LIMITS.perEndpoint[endpoint]; 0 stands
\* for undefined
perEndpoint(path) ==
    IF path = "/api/command" THEN RATE_LIMIT_COMMAND
    ELSE IF path = "/api/webhook" THEN RATE_LIMIT_WEBHOOK
    ELSE IF path = "/api/inbox" THEN RATE_LIMIT_INBOX
    ELSE 0

\* lines 109-128: the error rateLimitMiddleware answers with, "-" for next()
rateLimit(r, req) ==
    IF r.thisMinute > RATE_LIMIT_GLOBAL THEN "Rate limit exceeded"
    ELSE IF r.byIP[req.ip] > RATE_LIMIT_PER_IP THEN "Too many requests from this IP"
    ELSE IF perEndpoint(req.path) # 0 /\ r.byEndpoint[req.path] > perEndpoint(req.path)
         THEN "Endpoint rate limit exceeded"
    ELSE "-"

\* variant: the budget is exceeded only above the limit
OverBudget_Above(r) == r.today > DAILY_REQUEST_LIMIT

\* line 134
OverBudget(r) == r.today >= DAILY_REQUEST_LIMIT

\* part_005 lines 49-94: the status authMiddleware answers with, 0 for next()
authMiddleware(req) ==
    IF req.path \in {"/health", "/api/webhook/voice", "/api/webhook/github", "/api/webhook/sinch"}
    THEN 0
    ELSE IF req.key = None THEN 401
    ELSE IF req.key # Some(ADMIN_KEY) THEN 403
    ELSE 0

Respond(req, status, by, error) ==
    [ip |-> req.ip, path |-> req.path, status |-> status, by |-> by, error |-> error]

\* lines 174-183 and 296: the route handler the request reaches; a path
\* without a route is answered 404
Route(req) ==
    IF req.path = "/api/kill-switch/deactivate"
    THEN IF req.secret # Some(KILL_SWITCH_SECRET)
         THEN /\ last' = Respond(req, 403, "route", "Invalid secret")
              /\ killSwitch' = killSwitch
         ELSE /\ last' = Respond(req, 200, "route", "-")
              /\ killSwitch' = FALSE
    ELSE /\ last' = Respond(req, IF req.path = "/api/kill-switch" THEN 404 ELSE 200, "route", "-")
         /\ killSwitch' = killSwitch

\* One request through the middleware chain of lines 257-260 and its route.
Request(req) ==
    /\ served < MaxRequests
    /\ served' = served + 1
    /\ IF Blocked(req)
       THEN /\ last' = Respond(req, 503, "killSwitchMiddleware", "Service temporarily disabled")
            /\ UNCHANGED <<killSwitch, requests, windowOver>>
       ELSE LET r == Counted(resetCounters(requests), req) IN
            /\ requests' = r
            /\ windowOver' = [minute |-> FALSE, day |-> FALSE]
            /\ IF rateLimit(r, req) # "-"
               THEN /\ last' = Respond(req, 429, "rateLimitMiddleware", rateLimit(r, req))
                    /\ killSwitch' = killSwitch
               ELSE IF OverBudget(r)
               THEN /\ last' = Respond(req, 503, "budgetControlMiddleware", "Daily budget exceeded")
                    /\ killSwitch' = TRUE
               ELSE IF authMiddleware(req) # 0
               THEN /\ last' = Respond(req, authMiddleware(req), "authMiddleware", "-")
                    /\ killSwitch' = killSwitch
               ELSE Route(req)
    /\ UNCHANGED engineVars

\* more than 60,000 ms have passed since counters.lastReset.minute
MinuteElapses ==
    /\ ~windowOver.minute
    /\ windowOver' = [windowOver EXCEPT !.minute = TRUE]
    /\ UNCHANGED <<killSwitch, requests, served, last>>
    /\ UNCHANGED engineVars

\* more than 86,400,000 ms have passed since counters.lastReset.day
DayElapses ==
    /\ ~windowOver.day
    /\ windowOver' = [windowOver EXCEPT !.day = TRUE]
    /\ UNCHANGED <<killSwitch, requests, served, last>>
    /\ UNCHANGED engineVars

NextGate ==
    \/ \E req \in Requests : Request(req)
    \/ MinuteElapses
    \/ DayElapses

\* The server with the kill switch as the environment sets it and any of
\* the request histories behind it; the match engine is not observed.
InitGate ==
    /\ lost_pets = T5
    /\ sinchConfigured = FALSE
    /\ Startup
    /\ killSwitch \in BOOLEAN
    /\ requests \in Histories
    /\ windowOver = [minute |-> FALSE, day |-> FALSE]
    /\ served = 0
    /\ last = NoResponse

SpecGate == InitGate /\ [][NextGate]_vars

TypeOK ==
    /\ killSwitch \in BOOLEAN
    /\ served \in 0..MaxRequests
    /\ windowOver \in [minute : BOOLEAN, day : BOOLEAN]
    /\ last.status \in {0, 200, 401, 403, 404, 429, 503}
    /\ returned \in Nat
    /\ started \in 1..MaxPasses
    /\ faults \in 0..MaxFaults
    /\ \A p \in Passes : pc[p] \in {"idle", "list", "pool", "exists", "save", "notify", "report", "done",
                                      "abandoned"}

\* ------------------------------------------------------- trace vocabulary
Events(p) == { trace[p][i] : i \in 1..Len(trace[p]) }

Started(p) == pc[p] # "idle"

Completed(p) == pc[p] = "done"

DispatchFailures == {"not_configured", "no_phone", "http_error"}

\* the event records a call that did not succeed
Failed(e) ==
    \/ e.op \in {"list", "pool", "save"} /\ e.res # "ok"
    \/ e.op = "exists" /\ e.res \in {"error", "throw"}
    \/ e.op = "notify" /\ e.res \in DispatchFailures
    \/ e.op = "report" /\ e.res # "shelter_notified"

\* ------------------------------------------------------------------ claims

\* C1: the scheduler never has two passes running at the same time; a tick
\* that fires while a pass is still executing starts no second pass.
C1_NoOverlappingPasses == Cardinality(InFlight) <= 1

\* C2: for every pair (subjectId, counterpartId) the match store holds at
\* most one MatchRecord, after any sequence of scheduler-driven passes.
C2_AtMostOneRecordPerPair ==
    \A m, n \in 1..Len(pet_matches) :
        (/\ pet_matches[m].lost_pet_id = pet_matches[n].lost_pet_id
         /\ pet_matches[m].found_pet_id = pet_matches[n].found_pet_id) => m = n

\* C3: when processMatches runs twice in succession over an unchanged record
\* set, the second run inserts no MatchRecord and invokes neither the
\* dispatcher nor the report generator.  Stated for the case most favourable
\* to the claim: every call of the first run succeeded (apart from
\* notifications).
C3_SecondRunDoesNothing ==
    \A p \in Passes :
        (/\ p > 1
         /\ Started(p)
         /\ \A e \in Events(p - 1) : e.op # "notify" => ~Failed(e))
        => \A e \in Events(p) : ~(e.op \in {"notify", "report"} \/ (e.op = "save" /\ e.res = "ok"))

Idx(p) == 1..Len(trace[p])

ListedOk(p) == \E e \in Events(p) : e.op = "list" /\ e.res = "ok"

\* the subjects of the work list that have at least one embedding
Eligible(p) == { i \in 1..Len(lostPets[p]) : ~NoVectors(lostPets[p][i]) }

Candidates(row) == findMatches(row, FoundQuery)

SamePair(e, f) == e.lost = f.lost /\ e.found = f.found

\* every candidate of every eligible subject went through the existence check
AllChecked(p) ==
    \A i \in Eligible(p) : \A n \in 1..Len(Candidates(lostPets[p][i])) :
        \E e \in Events(p) : /\ e.op = "exists"
                             /\ e.lost = lostPets[p][i].id
                             /\ e.found = Candidates(lostPets[p][i])[n].foundPetId

\* every candidate the check found absent was inserted, notified and reported
AllAbsentHandled(p) ==
    \A e \in Events(p) : (e.op = "exists" /\ e.res = "absent") =>
        \E i \in Idx(p) :
            /\ i + 2 <= Len(trace[p])
            /\ trace[p][i].op = "save" /\ trace[p][i].res = "ok" /\ SamePair(trace[p][i], e)
            /\ trace[p][i + 1].op = "notify" /\ trace[p][i + 1].id = trace[p][i].id
            /\ trace[p][i + 2].op = "report" /\ trace[p][i + 2].id = trace[p][i].id
            /\ trace[p][i].id \in 1..Len(pet_matches)
            /\ pet_matches[trace[p][i].id].lost_pet_id = e.lost
            /\ pet_matches[trace[p][i].id].found_pet_id = e.found

\* the calls of kind op made for match id, over all passes
Calls(op, id) ==
    UNION { { <<p, i>> : i \in { n \in Idx(p) : trace[p][n].op = op /\ trace[p][n].id = id } } :
            p \in Passes }

\* C4: when the existence check finds a record for the candidate's pair, the
\* gate performs no insert and invokes neither the dispatcher nor the report
\* generator for that candidate; a match record is dispatched and reported at
\* most once over all passes, whatever the outcome was.
C4_FoundIsSkippedAndNeverRetried ==
    /\ \A p \in Passes : \A i \in Idx(p) :
          (trace[p][i].op = "exists" /\ trace[p][i].res = "found") =>
              /\ \A j \in Idx(p) : SamePair(trace[p][j], trace[p][i]) => j = i
              /\ Running(p) => pc[p] \in {"exists", "pool"} \/ i < Len(trace[p])
    /\ \A id \in 1..Len(pet_matches) :
          /\ Cardinality(Calls("notify", id)) <= 1
          /\ Cardinality(Calls("report", id)) <= 1

\* a completed pass found the record of a pair whose notification or report
\* had failed in an earlier pass
C4_Witness ==
    \E p \in Passes : \E q \in 1..(p - 1) : \E e \in Events(p) : \E f \in Events(q) :
        /\ Completed(p)
        /\ e.op = "exists" /\ e.res = "found"
        /\ f.op \in {"notify", "report"} /\ Failed(f) /\ SamePair(e, f)

\* C5: a notification failure for a newly persisted match (SMS not configured,
\* no phone number, HTTP error) does not stop the pass: the report of that
\* match is awaited next, and a pass whose only failures are notification
\* failures checks every candidate of every eligible subject and inserts,
\* notifies and reports each one it found absent.
C5_DispatchFailureDoesNotStopPass ==
    \A p \in Passes :
        /\ \A i \in Idx(p) :
              (trace[p][i].op = "notify" /\ trace[p][i].res \in DispatchFailures) =>
                  IF i < Len(trace[p])
                  THEN trace[p][i + 1].op = "report" /\ trace[p][i + 1].id = trace[p][i].id
                  ELSE pc[p] = "report" /\ matchId[p] = trace[p][i].id
        /\ (Completed(p) /\ ListedOk(p) /\ \A e \in Events(p) : Failed(e) => e.op = "notify")
              => AllChecked(p) /\ AllAbsentHandled(p)

\* in a completed pass the notification of match A failed and a later
\* candidate B was inserted, notified and reported
C5_Witness ==
    \E p \in Passes : \E i, j \in Idx(p) :
        /\ Completed(p)
        /\ i < j /\ j + 2 <= Len(trace[p])
        /\ trace[p][i].op = "notify" /\ trace[p][i].res \in DispatchFailures
        /\ trace[p][j].op = "save" /\ trace[p][j].res = "ok"
        /\ trace[p][j + 1].op = "notify" /\ trace[p][j + 2].op = "report"

\* C6: in a pass that runs to completion every newly inserted MatchRecord is
\* handed to the dispatcher and then to the report generator, whatever the
\* outcome of the notification; a report never comes without the
\* notification before it.
C6_InsertIsNotifiedThenReported ==
    \A p \in Passes : \A i \in Idx(p) :
        /\ (Completed(p) /\ trace[p][i].op = "save" /\ trace[p][i].res = "ok") =>
              /\ i + 2 <= Len(trace[p])
              /\ trace[p][i + 1].op = "notify" /\ trace[p][i + 1].id = trace[p][i].id
              /\ trace[p][i + 2].op = "report" /\ trace[p][i + 2].id = trace[p][i].id
        /\ trace[p][i].op = "report" =>
              /\ i > 2
              /\ trace[p][i - 1].op = "notify" /\ trace[p][i - 1].id = trace[p][i].id
              /\ trace[p][i - 2].op = "save" /\ trace[p][i - 2].id = trace[p][i].id

\* a completed pass inserted a match, its SMS post failed, and the report
\* generator was invoked for it and sent the report
C6_Witness ==
    \E p \in Passes : \E i \in Idx(p) :
        /\ Completed(p)
        /\ i > 1 /\ i < Len(trace[p])
        /\ trace[p][i - 1].op = "save" /\ trace[p][i - 1].res = "ok"
        /\ trace[p][i].op = "notify" /\ trace[p][i].res = "http_error"
        /\ trace[p][i + 1].op = "report" /\ trace[p][i + 1].res = "shelter_notified"

\* the rows the pool query of findMatchesForLostPet returns
Pool == { FoundQuery[i] : i \in 1..Len(FoundQuery) }

\* the pairwise similarities of the embeddings of two rows
PairSims(l, f) ==
    { cosineSimilarity(l.image_vectors[1][i], f.image_vectors[1][j]) :
        i \in 1..Len(l.image_vectors[1]), j \in 1..Len(f.image_vectors[1]) }

\* f has an embedding, some pair of embeddings reaches the threshold and the
\* two rows are no farther apart than the maximum
ShouldMatch(l, f) ==
    /\ f.image_vectors # None
    /\ Len(f.image_vectors[1]) > 0
    /\ \E x \in PairSims(l, f) : x.n * 400 >= 289 * x.d
    /\ calculateDistance(l.location_lat, l.location_lon, f.location_lat, f.location_lon) <= 50

\* C7: findMatchesForLostPet returns a counterpart of the fetched pool if and
\* only if it has an embedding, its best pairwise similarity is at least
\* MATCH_THRESHOLD and its distance is at most MAX_DISTANCE_MILES; no persisted
\* MatchRecord has a similarity below the threshold or a distance above the
\* maximum.
C7_ScanReturnsExactlyTheQualifying ==
    /\ \A p \in Passes : \A e \in Events(p) :
          (e.op = "pool" /\ e.res = "ok") =>
              /\ { e.out[i].foundPetId : i \in 1..Len(e.out) }
                    = { f.id : f \in { g \in Pool : ShouldMatch(lost_pets[e.lost], g) } }
              /\ \A i, j \in 1..Len(e.out) : e.out[i].foundPetId = e.out[j].foundPetId => i = j
    /\ \A m \in 1..Len(pet_matches) :
          /\ pet_matches[m].similarity_score.n * 400 >= 289 * pet_matches[m].similarity_score.d
          /\ pet_matches[m].distance_miles <= 50

\* a scan returned one counterpart and left out another that is similar
\* enough but too far, and the returned one was persisted
C7_Witness ==
    \E p \in Passes : \E e \in Events(p) : \E f \in Pool :
        /\ e.op = "pool" /\ e.res = "ok" /\ Len(e.out) > 0
        /\ \A i \in 1..Len(e.out) : e.out[i].foundPetId # f.id
        /\ f.image_vectors # None
        /\ \E x \in PairSims(lost_pets[e.lost], f) : x.n * 400 >= 289 * x.d
        /\ \E m \in 1..Len(pet_matches) : pet_matches[m].lost_pet_id = e.lost

\* a > b as similarities
SimLess(b, a) == b.n * a.d < a.n * b.d

\* C8: findMatchesForLostPet returns the candidates sorted by descending
\* similarity, and within one pass the inserts and the dispatcher invocations
\* for one subject follow that order.
C8_DescendingSimilarityOrder ==
    \A p \in Passes :
        /\ \A e \in Events(p) : (e.op = "pool" /\ e.res = "ok") =>
              \A i, j \in 1..Len(e.out) :
                  i < j => ~SimLess(e.out[i].similarity, e.out[j].similarity)
        /\ \A i, j \in Idx(p) :
              (/\ i < j
               /\ trace[p][i].lost = trace[p][j].lost
               /\ trace[p][i].op \in {"save", "notify"} /\ trace[p][i].id # 0
               /\ trace[p][j].op \in {"save", "notify"} /\ trace[p][j].id # 0)
              => ~SimLess(pet_matches[trace[p][i].id].similarity_score,
                          pet_matches[trace[p][j].id].similarity_score)

\* one pass inserted and notified F2 before F1 for the same subject, F2 being
\* strictly more similar although F1 comes first in the pool
C8_Witness ==
    \E p \in Passes : \E i, j \in Idx(p) :
        /\ i < j
        /\ trace[p][i].op = "notify" /\ trace[p][j].op = "notify"
        /\ trace[p][i].lost = trace[p][j].lost
        /\ trace[p][i].found = "F2" /\ trace[p][j].found = "F1"
        /\ SimLess(pet_matches[trace[p][j].id].similarity_score,
                   pet_matches[trace[p][i].id].similarity_score)

AllScanned(p) ==
    \A i \in Eligible(p) : \E e \in Events(p) : e.op = "pool" /\ e.lost = lostPets[p][i].id

\* the call raised an error into the catch of the subject loop
Raised(e) == e.op \in {"pool", "exists", "save"} /\ e.res = "throw"

ReadFailed(e) == e.op \in {"pool", "exists"} /\ e.res \in {"error", "throw"}

\* C12: when the pool query of a subject or the existence query of a
\* candidate fails, the pass is aborted: after the failed read the pass scans
\* no further subject and inserts no MatchRecord.
C12_ReadFailureAbortsPass ==
    \A p \in Passes : \A i, j \in Idx(p) :
        (ReadFailed(trace[p][i]) /\ i < j) =>
            /\ trace[p][j].op # "pool"
            /\ ~(trace[p][j].op = "save" /\ trace[p][j].res = "ok")

\* C13: whenever the report step of a newly inserted match does not succeed
\* (processMatchReport returns success = false, or throws), the status of the
\* MatchRecord is advanced from 'pending' to a failure status distinct from
\* 'pending' and from 'shelter_notified'.
C13_FailedReportLeavesFailureStatus ==
    \A p \in Passes : \A e \in Events(p) :
        (e.op = "report" /\ ~ReportSuccess(e.res)) =>
            pet_matches[e.id].status \notin {"pending", "shelter_notified"}

\* the statuses processMatchReport writes
OutcomeStatuses == {"shelter_notified", "notification_failed", "no_shelter_email"}

\* C14: every MatchRecord is created with status 'pending', by the insert of
\* the dedup gate; no record is ever removed or re-keyed; the status of a
\* record changes only from 'pending' to one of the fan-out outcomes, so it
\* changes at most once and never returns to 'pending', over all passes.
C14_StatusOnlyMovesForward ==
    [][/\ Len(pet_matches') >= Len(pet_matches)
       /\ \A m \in 1..Len(pet_matches') :
             IF m > Len(pet_matches)
             THEN /\ pet_matches'[m].status = "pending"
                  /\ \E p \in Passes : pc[p] = "save"
             ELSE /\ pet_matches'[m].id = pet_matches[m].id
                  /\ pet_matches'[m].lost_pet_id = pet_matches[m].lost_pet_id
                  /\ pet_matches'[m].found_pet_id = pet_matches[m].found_pet_id
                  /\ pet_matches'[m].status # pet_matches[m].status =>
                        /\ pet_matches[m].status = "pending"
                        /\ pet_matches'[m].status \in OutcomeStatuses]_vars

\* two records carry different outcome statuses, and a later pass that ran to
\* completion found the record of a pair already reported
C14_Witness ==
    \E p \in Passes : \E e \in Events(p) : \E m, n \in 1..Len(pet_matches) :
        /\ Completed(p)
        /\ e.op = "exists" /\ e.res = "found"
        /\ pet_matches[m].lost_pet_id = e.lost /\ pet_matches[m].found_pet_id = e.found
        /\ pet_matches[m].status \in OutcomeStatuses
        /\ pet_matches[n].status \in OutcomeStatuses
        /\ pet_matches[n].status # pet_matches[m].status

\* C15: a failed notification leaves the match store as it was: the record
\* just inserted is in the store with status 'pending', and no other record
\* is changed or removed by the step in which sendMatchNotification fails.
C15_NotifyFailureLeavesStore ==
    [][\A p \in Passes :
          (/\ Len(trace'[p]) > Len(trace[p])
           /\ trace'[p][Len(trace'[p])].op = "notify"
           /\ trace'[p][Len(trace'[p])].res \in DispatchFailures) =>
              LET e == trace'[p][Len(trace'[p])] IN
              /\ e.id \in 1..Len(pet_matches')
              /\ pet_matches'[e.id].lost_pet_id = e.lost
              /\ pet_matches'[e.id].found_pet_id = e.found
              /\ pet_matches'[e.id].status = "pending"
              /\ \A m \in 1..Len(pet_matches) : pet_matches'[m] = pet_matches[m]
              /\ IF e.res = "http_error" THEN pet_matches' = pet_matches
                 ELSE Len(pet_matches') = Len(pet_matches) + 1 /\ e.id = Len(pet_matches')]_vars

\* the SMS post for a new match has just failed: the pass is about to call
\* the report generator, the record is pending and an earlier record of the
\* store keeps its outcome status
C15_Witness ==
    \E p \in Passes : \E m \in 1..Len(pet_matches) :
        /\ pc[p] = "report"
        /\ trace[p][Len(trace[p])].op = "notify"
        /\ trace[p][Len(trace[p])].res = "http_error"
        /\ pet_matches[matchId[p]].status = "pending"
        /\ m # matchId[p]
        /\ pet_matches[m].status \in OutcomeStatuses

\* the subjects of the store that are eligible: status 'lost' and at least
\* one embedding
EligibleSubjects ==
    { id \in DOMAIN lost_pets : lost_pets[id].status = "lost" /\ ~NoVectors(lost_pets[id]) }

\* C16: every eligible subject is scanned by some pass, however many eligible
\* subjects the store holds.  Stated for the case most favourable to the
\* claim: once every pass of the run has ended without a single failed call,
\* each eligible subject has been scanned by at least one of them.
C16_EveryEligibleSubjectScanned ==
    (\A p \in Passes : Completed(p) /\ \A e \in Events(p) : ~Failed(e)) =>
        \A id \in EligibleSubjects :
            \E p \in Passes : \E e \in Events(p) : e.op = "pool" /\ e.lost = id

\* one of the four coordinates of the pair is missing, null or 0
MissingCoordinate(l, f) ==
    \E c \in {l.location_lat, l.location_lon, f.location_lat, f.location_lon} :
        c = <<>> \/ c = <<0>>

\* C17: a pair in which one of the four coordinates is missing, null or 0
\* has distance +infinity, which exceeds MAX_DISTANCE_MILES; such a pair is
\* never returned by a scan and never persisted, whatever its similarity.
C17_MissingCoordinateNeverMatches ==
    /\ Infinity > MAX_DISTANCE_MILES
    /\ \A a, b \in DOMAIN lost_pets :
          MissingCoordinate(lost_pets[a], lost_pets[b]) =>
              calculateDistance(lost_pets[a].location_lat, lost_pets[a].location_lon,
                                lost_pets[b].location_lat, lost_pets[b].location_lon) = Infinity
    /\ \A p \in Passes : \A e \in Events(p) :
          (e.op = "pool" /\ e.res = "ok") =>
              \A i \in 1..Len(e.out) :
                  ~MissingCoordinate(lost_pets[e.lost], lost_pets[e.out[i].foundPetId])
    /\ \A m \in 1..Len(pet_matches) :
          ~MissingCoordinate(lost_pets[pet_matches[m].lost_pet_id],
                             lost_pets[pet_matches[m].found_pet_id])

\* a pass ran to completion over a store in which L1 and F1 have the same
\* embedding and only the longitude of F1 is 0: the scan of L1 returned
\* nothing and nothing was persisted
C17_Witness ==
    \E p \in Passes : \E e \in Events(p) :
        /\ Completed(p)
        /\ e.op = "pool" /\ e.res = "ok" /\ e.lost = "L1" /\ e.out = <<>>
        /\ lost_pets["F1"].location_lon = Some(0)
        /\ lost_pets["F1"].location_lat = Some(1)
        /\ lost_pets["L1"].location_lat = Some(1)
        /\ lost_pets["L1"].location_lon = Some(1)
        /\ cosineSimilarity(lost_pets["L1"].image_vectors[1][1],
                            lost_pets["F1"].image_vectors[1][1]) = [n |-> 1, d |-> 1]
        /\ pet_matches = <<>>

\* the embedding list of the row is missing (null) or empty
WithoutEmbeddings(row) == row.image_vectors = <<>> \/ row.image_vectors = <<<<>>>>

\* C18: a subject whose embedding list is missing or empty is excluded from
\* the scan: no call of any pass (pool read, existence check, insert,
\* notification, report) concerns it, and no MatchRecord names it.
C18_SubjectWithoutEmbeddingsIsExcluded ==
    /\ \A p \in Passes : \A e \in Events(p) :
          e.lost \in DOMAIN lost_pets => ~WithoutEmbeddings(lost_pets[e.lost])
    /\ \A p \in Passes : pc[p] = "pool" => ~WithoutEmbeddings(lostPets[p][cur[p]])
    /\ \A m \in 1..Len(pet_matches) : ~WithoutEmbeddings(lost_pets[pet_matches[m].lost_pet_id])

\* a pass ran to completion over a work list that holds a subject with an
\* empty embedding list, and inserted a match for another subject
C18_Witness ==
    \E p \in Passes : \E i \in 1..Len(lostPets[p]) : \E e \in Events(p) :
        /\ Completed(p)
        /\ lostPets[p][i].image_vectors = <<<<>>>>
        /\ e.op = "save" /\ e.res = "ok" /\ e.lost # lostPets[p][i].id

\* the greatest of the pairwise similarities of the embeddings of two rows
MaxPairSim(l, f) ==
    CHOOSE x \in PairSims(l, f) : \A y \in PairSims(l, f) : y.n * x.d <= x.n * y.d

\* C19: the similarity of every returned candidate and of every persisted
\* MatchRecord is the maximum of cosineSimilarity over all pairs of an
\* embedding of the subject and an embedding of the counterpart; one pair at
\* or above the threshold is enough for a counterpart within the distance
\* limit to be returned.
C19_SimilarityIsMaxOverAllPairs ==
    /\ \A p \in Passes : \A e \in Events(p) :
          (e.op = "pool" /\ e.res = "ok") =>
              /\ \A i \in 1..Len(e.out) :
                    e.out[i].similarity
                        = MaxPairSim(lost_pets[e.lost], lost_pets[e.out[i].foundPetId])
              /\ \A f \in Pool :
                    (/\ \E x \in PairSims(lost_pets[e.lost], f) : x.n * 400 >= 289 * x.d
                     /\ ~MissingCoordinate(lost_pets[e.lost], f))
                    => \E i \in 1..Len(e.out) : e.out[i].foundPetId = f.id
    /\ \A m \in 1..Len(pet_matches) :
          pet_matches[m].similarity_score
              = MaxPairSim(lost_pets[pet_matches[m].lost_pet_id],
                           lost_pets[pet_matches[m].found_pet_id])

\* a record was persisted for a pair with two embeddings on each side whose
\* greatest similarity is reached neither by the first pair compared nor by
\* the last
C19_Witness ==
    \E m \in 1..Len(pet_matches) :
        LET l == lost_pets[pet_matches[m].lost_pet_id].image_vectors[1]
            f == lost_pets[pet_matches[m].found_pet_id].image_vectors[1]
        IN  /\ Len(l) = 2 /\ Len(f) = 2
            /\ pet_matches[m].similarity_score # cosineSimilarity(l[1], f[1])
            /\ pet_matches[m].similarity_score # cosineSimilarity(l[2], f[2])
            /\ pet_matches[m].similarity_score \in
                  {cosineSimilarity(l[1], f[2]), cosineSimilarity(l[2], f[1])}

\* C20: on process start one pass is begun at once, before any tick; after
\* that, every tick that finds no pass running starts exactly one pass, which
\* begins with the work-list read.
C20_StartupPassThenOnePassPerIdleTick ==
    /\ (started = 1 /\ InFlight = {1} /\ pc[1] = "list" /\ trace[1] = <<>>)
    /\ [][(started' # started /\ InFlight = {}) =>
              /\ started' = started + 1
              /\ InFlight' = {started'}
              /\ pc'[started'] = "list"
              /\ trace' = trace]_vars

\* the startup pass has run to completion and the tick after it has just
\* started the second pass
C20_Witness ==
    /\ started = 2
    /\ Completed(1) /\ ListedOk(1)
    /\ pc[2] = "list" /\ trace[2] = <<>>

\* C21: every pass terminates: provided each awaited call returns, a pass
\* that started reaches its end and the scheduler is idle again, whatever
\* the work list, the pool and the failures of the calls.
C21_EveryPassTerminates ==
    \A p \in Passes : Running(p) ~> (Completed(p) /\ InFlight = {})

\* every pass of the run has ended, one of them after a call that raised an
\* error and one after a scan that returned two candidates
C21_Witness ==
    /\ started = MaxPasses
    /\ \A p \in Passes : Completed(p)
    /\ \E p \in Passes : \E e \in Events(p) : Raised(e)
    /\ \E p \in Passes : \E e \in Events(p) : e.op = "pool" /\ Len(e.out) = 2

\* C22: no step of a pass writes to the record store: lost_pets is the same
\* after every step, so a subject that has a MatchRecord still has status
\* 'lost', and the work list every pass read is the work list the query
\* returns now, matched subjects included.
C22_PassesNeverWriteRecordStore ==
    /\ [][lost_pets' = lost_pets]_vars
    /\ [](\A m \in 1..Len(pet_matches) : lost_pets[pet_matches[m].lost_pet_id].status = "lost")
    /\ [](\A p \in Passes : ListedOk(p) => lostPets[p] = LostQuery)

\* the second pass scanned a subject for which the first pass had inserted a
\* MatchRecord
C22_Witness ==
    \E e1 \in Events(1) : \E e2 \in Events(2) :
        /\ e1.op = "save" /\ e1.res = "ok"
        /\ e2.op = "pool" /\ e2.res = "ok" /\ e2.lost = e1.lost
        /\ HasRecord(e1.lost, e1.found)

\* the embeddings of a row (a null entry is None)
VectorsOf(row) ==
    IF row.image_vectors = None THEN {}
    ELSE { row.image_vectors[1][i] : i \in 1..Len(row.image_vectors[1]) }

\* every component of the vector is 0 (an empty vector included)
ZeroNorm(vec) == \A i \in 1..Len(vec[1]) : vec[1][i] = 0

\* one of the vectors is null, the lengths differ, both are empty or one has
\* zero norm
Degenerate(vec1, vec2) ==
    \/ vec1 = None \/ vec2 = None
    \/ Len(vec1[1]) # Len(vec2[1])
    \/ ZeroNorm(vec1) \/ ZeroNorm(vec2)

\* C23: cosineSimilarity returns exactly 0 whenever either vector is null,
\* the two lengths differ, both vectors are empty or either has zero norm;
\* a scan over such a pair alone completes and returns no candidate.
C23_DegenerateVectorsHaveSimilarityZero ==
    /\ \A a, b \in DOMAIN lost_pets :
          \A vec1 \in VectorsOf(lost_pets[a]) : \A vec2 \in VectorsOf(lost_pets[b]) :
              Degenerate(vec1, vec2) => cosineSimilarity(vec1, vec2) = Zero
    /\ \A p \in Passes : \A e \in Events(p) :
          (/\ e.op = "pool" /\ e.res = "ok"
           /\ \A vec1 \in VectorsOf(lost_pets[e.lost]) : \A f \in Pool :
                  \A vec2 \in VectorsOf(f) : Degenerate(vec1, vec2))
          => e.out = <<>>

\* a pass ended after scanning a subject whose embedding has zero norm
\* against a counterpart with a unit embedding of the same length
C23_Witness ==
    /\ lost_pets["L1"].image_vectors = Some(<<VZ>>)
    /\ lost_pets["F1"].image_vectors = Some(<<VA>>)
    /\ Completed(1)
    /\ \E e \in Events(1) : e.op = "pool" /\ e.res = "ok" /\ e.lost = "L1" /\ e.out = <<>>

\* the pair the pass is checking or inserting
CurrentPair(p) == <<lostPets[p][cur[p]].id, matches[p][k[p]].foundPetId>>

\* C27: matchExists answers true exactly when the match store holds a record
\* for the pair, also when its query fails: an existence check for a pair
\* that has a record is never followed by the insert of that pair, and a
\* check that was answered for a pair without a record always is.
C27_ExistenceCheckDecidesByTheStore ==
    [][\A p \in Passes :
          (pc[p] = "exists" /\ trace'[p] # trace[p]) =>
              /\ HasRecord(CurrentPair(p)[1], CurrentPair(p)[2]) => pc'[p] # "save"
              /\ (/\ ~HasRecord(CurrentPair(p)[1], CurrentPair(p)[2])
                  /\ trace'[p][Len(trace'[p])].res = "absent") => pc'[p] = "save"]_vars

\* the dispatcher and the report generator were invoked for the record
Dispatched(m) ==
    \E p \in Passes : \E e1, e2 \in Events(p) :
        /\ e1.op = "notify" /\ e2.op = "report"
        /\ e1.lost = pet_matches[m].lost_pet_id /\ e1.found = pet_matches[m].found_pet_id
        /\ e2.lost = pet_matches[m].lost_pet_id /\ e2.found = pet_matches[m].found_pet_id

\* C28: no persisted match is left without a dispatch attempt: when a pass
\* was abandoned after a MatchRecord was inserted and before its
\* notification and report were dispatched, a later pass invokes the
\* dispatcher and the report generator for it.  Stated for the case most
\* favourable to the claim: once the last pass of the run has run to its end
\* without a failed call, every record of the store has been dispatched.
C28_AbandonedMatchIsDispatchedLater ==
    (/\ started = MaxPasses
     /\ Completed(MaxPasses)
     /\ \A e \in Events(MaxPasses) : ~Failed(e))
    => \A m \in 1..Len(pet_matches) : Dispatched(m)

\* ---------------------------------------------------- cost control claims
\* the step answers a request; last' names its address and its path
Answered == served' = served + 1

\* the request is not answered by killSwitchMiddleware: the kill switch is
\* off or the path is one of the two exempt paths of line 76
PastKillSwitch == ~killSwitch \/ last'.path \in {"/api/kill-switch", "/health"}

\* C24: while the kill switch is active, a request to any path other than
\* the exempt ones is answered 503 by killSwitchMiddleware, before rate
\* limiting, budget control, authentication and routes: no request counter
\* changes, no window is reset and no handler changes the kill switch or the
\* match engine.
C24_KillSwitchAnswersFirst ==
    [][(Answered /\ ~PastKillSwitch) =>
          /\ last'.status = 503 /\ last'.by = "killSwitchMiddleware"
          /\ UNCHANGED <<killSwitch, requests, windowOver>>
          /\ UNCHANGED engineVars]_vars

\* with the 49,999 requests of the day behind it and the kill switch on, the
\* server has answered three requests, the last one an /api/command with
\* 503, and no counter has moved
C24_Witness ==
    /\ killSwitch
    /\ served = 3
    /\ last = [ip |-> "ip1", path |-> "/api/command", status |-> 503,
               by |-> "killSwitchMiddleware", error |-> "Service temporarily disabled"]
    /\ requests.today = 49999 /\ requests.byEndpoint["/api/command"] = 0

C26_BudgetSetsKillSwitchUntilDeactivated ==
    [][/\ (/\ Answered
           /\ last'.by \notin {"killSwitchMiddleware", "rateLimitMiddleware"}
           /\ requests'.today >= DAILY_REQUEST_LIMIT)
          => /\ killSwitch'
             /\ last'.status = 503 /\ last'.by = "budgetControlMiddleware"
       /\ (killSwitch /\ ~killSwitch') =>
             /\ last'.path = "/api/kill-switch/deactivate"
             /\ last'.by = "route" /\ last'.status = 200
       /\ (Answered /\ killSwitch /\ last'.path \notin {"/api/kill-switch", "/health"})
          => last'.status = 503 /\ killSwitch']_vars

\* the 50,000th request of the day set the kill switch; a day later a
\* /health request has reset the daily counter, and the next /api/command
\* is still answered 503
C26_Witness ==
    /\ killSwitch
    /\ requests.today = 1
    /\ requests.byEndpoint["/health"] > DAILY_REQUEST_LIMIT
    /\ last.path = "/api/command" /\ last.status = 503 /\ last.by = "killSwitchMiddleware"

\* C29: from any state in which the kill switch is active, a request to
\* /api/kill-switch/deactivate with the correct secret and a valid admin key
\* reaches its handler and turns the kill switch off; with a wrong secret
\* the kill switch is unchanged and the answer is 403.
C29_DeactivateReachesItsHandler ==
    [][\A req \in Requests :
          (/\ Request(req)
           /\ killSwitch
           /\ req.path = "/api/kill-switch/deactivate"
           /\ req.key = Some(ADMIN_KEY))
          => IF req.secret = Some(KILL_SWITCH_SECRET)
             THEN ~killSwitch' /\ last'.status = 200 /\ last'.by = "route"
             ELSE killSwitch' /\ last'.status = 403]_vars

\* C30: the per-endpoint limit lasts one minute: the first request after
\* the minute is over is not refused with 'Endpoint rate limit exceeded'.
C30_EndpointLimitLastsOneMinute ==
    [][(Answered /\ PastKillSwitch /\ windowOver.minute)
          => last'.error # "Endpoint rate limit exceeded"]_vars

====
